---- MODULE Spec2Model ----
(***************************************************************************)
(* Model of the mini-current-meter firmware: the measurement buffer        *)
(* (currentlogs.rs), the transfer job slot and its delivery thread         *)
(* (transfer.rs) and the sampling loop of main() (main.rs).                *)
(*                                                                         *)
(* A measurement record is identified by its timestamp `clock`; the loop   *)
(* takes one timestamp per tick and the model advances it by one per tick. *)
(* Voltages, currents and powers are integers in thousandths of the unit   *)
(* (mV, mA, mW), times are milliseconds.                                   *)
(***************************************************************************)
EXTENDS Integers, Naturals, Sequences, FiniteSets, TLC

----------------------------------------------------------------------------
(* Bounds of the model *)

\* number of iterations of the main loop in one modelled run
MaxTicks == 7
\* largest configured capacity (max_records) of the small configurations
MaxCapacity == 4
\* a pre-filled run starts 1..PrefillGap records short of the capacity
PrefillGap == 2
\* buffer API runs: longest buffer, largest argument of remove_data,
\* number of calls in one run
MaxLen == 4
MaxDrain == 5
MaxCalls == 5
\* passes of the loop in a run with failing sensor reads
MaxSenseTicks == 3
MaxButtonTicks == 5
MaxTagTicks == 4
MaxChannelTicks == 4
MaxPressTicks == 4
MaxGateWrites == 3
MaxGateRenders == 3
MaxBusRenders == 2
MaxGuardRecords == 1
MaxGuardPasses == 1
MaxGuardRenders == 2
\* passes of the rendering loop: one round of the animation and one more
MaxAnimationRenders == 17

\* capacities of the pre-filled runs: larger than one chunk of 128 records
LargeCapacities == {200, 256, 258}
\* timestamps used by the buffer API runs
ApiClocks == {1, 2}
\* values returned by a successful read of a sensor register (mV, mA, mW)
ReadValues == {1400, 2000}
\* time between two passes of the loop: the nominal period, and passes
\* that come late because the pass before blocked
TickDelays == {100, 2000}
\* the nominal period, and a pass that comes just before a press is long
PressDelays == {100, 1900}
\* first failing sample of a calibration run (0: none fails)
CalFailAt == {0, 1, 150, 300}
\* storage holds nothing under the key "channel"
NoKey == -1
\* what storage may hold under "channel": nothing, or a byte
StoredChannels == {NoKey, 0, 1, 3, 4, 5, 255}

----------------------------------------------------------------------------
(* Program constants *)

\* transfer.rs: `if count == 128 { break; }`
ChunkSize == 128
\* transfer.rs: `204 => { return Ok(()); }`
SuccessStatus == 204

\* outcomes of one POST: a transport error (the `?` in Transfer::transfer)
\* or a response with a status code
Responses ==
    {[transport |-> FALSE, status |-> s] : s \in {200, 204, 500}}
        \cup {[transport |-> TRUE, status |-> 0]}

\* signal strengths returned by wifi::get_rssi (0: not associated)
RssiValues == {0, -60}
WifiStates == {"Disconnected", "Connecting", "Connected"}

\* render ticks explored by the specifications of the rendering loop
MaxRangeRenders == 2
MaxLadderRenders == 7
MaxSteadyRenders == 13
\* levels kept of a run of render ticks at one battery voltage: the level
\* before the run and the levels after 7 ticks
HeldLen == 8
\* ticks and render ticks explored with the status writes taken one by one
MaxStatusTicks == 3
MaxStatusRenders == 3
\* measured values (thousandths) around the range thresholds 1.5 and 2.0
RangeValues == {-2000, 1400, 1600, 1999, 2000}
\* battery voltages (mV) at and just below every threshold of the ladder
BatteryValues ==
    {3500, 3590, 3600, 3640, 3650, 3680, 3690, 3700, 3740, 3750, 3790, 3800,
     3840, 3850, 3890, 3900, 3940, 3950, 3990, 4000, 4040, 4050, 4140, 4150,
     4240, 4250, 4300}
\* one battery voltage below the thresholds of the ladder, and the lowest
\* voltage of every band between two of them
BandValues ==
    {3500, 3600, 3650, 3700, 3750, 3800, 3850, 3900, 3950, 4000, 4050, 4150,
     4250}
\* battery voltages of consecutive render ticks after power-up
LadderSeq == <<3500, 3700, 3900, 3680, 3650>>

\* bytes returned by a read of the 3-byte current register
FirstBytes == {0, 1, 64, 127, 128, 129, 255}
MiddleBytes == {0, 1, 128, 255}
LastBytes == {0, 1, 15, 16, 31, 240, 255}

\* main.rs: `const LONG_PRESS_TIME_MS: u64 = 2000`
LONG_PRESS_TIME_MS == 2000
\* main.rs: `MESSAGE_CLEAR_TIME = current_time + 2000`
MessageHoldMs == 2000
\* main.rs, calibration(): `for i in 0..300`, `sleep(Duration::from_millis(10))`
CalSamples == 300
CalSleepMs == 10

\* result of one register read: Err, or Ok with the scaled value
ReadResults ==
    {[ok |-> FALSE, val |-> 0]} \cup {[ok |-> TRUE, val |-> v] : v \in ReadValues}
NominalRead == [ok |-> TRUE, val |-> 1400]

\* the samples of one calibration run: sample fail_at of fail_in fails
\* (0: none); the good samples read the constant values current, voltage
CalRuns ==
    [fail_at : CalFailAt, fail_in : {"current", "voltage"},
     current : {20}, voltage : {30}]
NominalCal == [fail_at |-> 0, fail_in |-> "current", current |-> 20,
               voltage |-> 30]

\* inputs of one pass of the loop of main()
TickInputs(rssis, reconns, delays, reads, cals, nvsoks) ==
    [rssi : rssis, reconnected : reconns, dt : delays,
     vread : reads, cread : reads, pread : reads, adc : {1850},
     cal : cals, nvs_ok : nvsoks]

\* the fields of DisplayText that every pass of the loop of main() writes
StatusFields ==
    {"wifi_rssi", "wifi", "status", "battery", "voltage", "current", "power",
     "buffer_water_mark"}

\* all sensor reads succeed, the loop is on time, storage works
NominalInputs ==
    TickInputs(RssiValues, BOOLEAN, {100}, {NominalRead}, {NominalCal},
               {TRUE})

----------------------------------------------------------------------------
VARIABLES
    max_records,                    \* main: configured capacity
    clock,                          \* timestamp of the latest tick
    ticks,                          \* iterations of the main loop (calls of the
                                    \* buffer API) so far
    clogs,                          \* CurrentRecord.rec
    logging_start,                  \* main: logging enabled
    logging_stopped_by_buffer_full, \* main: stopped-by-full flag
    wifi_enable,                    \* main: connectivity available
    current_record,                 \* main: size evaluated in the last tick
    logs,                           \* main: records passed to the last submit
    txcount,                        \* main: return value of the last submit
    submit_at,                      \* where the delivery thread was when the
                                    \* last tick called submit ("none": no call)
    tx_guard,                       \* owner of the transfer-job guard (Mutex
                                    \* of TransferData)
    body,                           \* TransferData.body (lines)
    txreq,                          \* TransferData.txreq (pending flag)
    th_pc,                          \* position of the delivery thread
    request,                        \* delivery thread: copy of the body
    ret,                            \* delivery thread: result of the last POST
    lost,                           \* timestamps of the bodies whose POST failed
    appended,                       \* number of records appended so far
    removed,                        \* number of records removed by drains
    op,                             \* buffer API runs: the last call
    now,                            \* wall clock (ms)
    pin,                            \* level of the button pin (TRUE: high,
                                    \* released)
    current_time,                   \* main: time read by the last tick
    LAST_BUTTON_STATE,              \* main: statics of the button polling
    BUTTON_PRESS_START_TIME,
    CALIBRATION_IN_PROGRESS,
    MESSAGE_CLEAR_TIME,
    LONG_PRESS_TRIGGERED,
    channel,                        \* main: active channel
    influxdb_tag,                   \* ServerInfo.influxdb_tag of the Transfer
    nvs,                            \* persisted channel and offsets
    average_current_offset,         \* main: calibration offsets in use
    average_voltage_offset,
    txt,                            \* DisplayText behind the status guard
    sense,                          \* last tick: results of the three reads,
                                    \* and the value of the latest good read
    calib,                          \* last tick: calibration run, its failing
                                    \* sample and result, channel written to
                                    \* storage and whether storage took it
    guard,                          \* owner of the status guard (Mutex of txt)
    render_pc,                      \* position of the rendering loop
    loopcount,                      \* rendering loop: animation counter
    battery_level,                  \* rendering loop: level on the ladder
    prev,                           \* rendering loop: prev_* of the last repaint
    renders,                        \* render ticks so far
    hold,                           \* the press under way: when the button
                                    \* went down, calibrations started since
    done,                           \* the last finished press: how long the
                                    \* button was down, calibrations started
    ctl_pc,                         \* main: the next status write of the tick
    status_tick,                    \* number of the tick whose status writes
                                    \* are under way
    stamp,                          \* per status field: the tick that wrote it
    writes,                         \* setter calls of the gating runs so far
    bus_guard,                      \* who holds the lock of the I2C driver
    sensor_pc,                      \* a sensor read: the call it is at
    bus_last,                       \* the latest transfer on the I2C bus
    curt_buf,                       \* current_read: the three bytes read
    current_reg,                    \* current_read: the decoded register
    ladder_step,                    \* leading render ticks whose battery
                                    \* voltages followed LadderSeq
    held                            \* the battery voltage of the latest
                                    \* render tick, and the levels before and
                                    \* after the latest ticks that read it

vars == <<max_records, clock, ticks, clogs, logging_start,
          logging_stopped_by_buffer_full, wifi_enable, current_record, logs,
          txcount, submit_at, tx_guard, body, txreq, th_pc, request, ret,
          lost, appended, removed,
          op, now, pin, current_time, LAST_BUTTON_STATE,
          BUTTON_PRESS_START_TIME, CALIBRATION_IN_PROGRESS,
          MESSAGE_CLEAR_TIME, LONG_PRESS_TRIGGERED, channel, influxdb_tag,
          nvs, average_current_offset, average_voltage_offset, txt, sense,
          calib, guard, render_pc, loopcount, battery_level, prev, renders,
          hold, done, ctl_pc, status_tick, stamp, writes, bus_guard,
          sensor_pc, bus_last, curt_buf,
          current_reg, ladder_step, held>>

mainVars == <<max_records, clock, ticks, logging_start,
              logging_stopped_by_buffer_full, wifi_enable, current_record,
              logs, txcount, submit_at>>
threadVars == <<th_pc, request, ret, lost, tx_guard>>
buttonVars == <<current_time, LAST_BUTTON_STATE, BUTTON_PRESS_START_TIME,
                CALIBRATION_IN_PROGRESS, MESSAGE_CLEAR_TIME,
                LONG_PRESS_TRIGGERED, channel, influxdb_tag, nvs,
                average_current_offset, average_voltage_offset, calib>>
ctlVars == <<now, pin, hold, done, buttonVars, txt, sense>>
statusVars == <<ctl_pc, status_tick, stamp, writes>>
decodeVars == <<curt_buf, current_reg>>
busVars == <<bus_guard, sensor_pc, bus_last>>
dispVars == <<guard, render_pc, loopcount, battery_level, prev, renders,
              ladder_step, held>>
apiFrame == <<max_records, clock, logging_start,
              logging_stopped_by_buffer_full, wifi_enable, current_record,
              logs, txcount, submit_at, body, txreq, th_pc, request, ret,
              lost, tx_guard>>

----------------------------------------------------------------------------
(* currentlogs.rs *)

Min(a, b) == IF a < b THEN a ELSE b

\* CurrentLog::default() with the timestamp taken by the tick
CurrentLog(c) ==
    [clock |-> c, voltage |-> 0, current |-> 0, power |-> 0, battery |-> 0]

\* record that overwrites the last element of a non-empty buffer
record_Overwrite(rec, data) ==
    IF rec = <<>> THEN <<data>> ELSE [rec EXCEPT ![Len(rec)] = data]

\* CurrentRecord::record
record(rec, data) == Append(rec, data)

\* CurrentRecord::get_size
get_size(rec) == Len(rec)

\* CurrentRecord::get_all_data
get_all_data(rec) == rec

\* remove_data that drains the newest records instead of the oldest
remove_data_FromTail(rec, size) ==
    LET num == IF Len(rec) < size THEN Len(rec) ELSE size
    IN  SubSeq(rec, 1, Len(rec) - num)

\* remove_data that drains one record less than asked
remove_data_OneLess(rec, size) ==
    LET num == IF Len(rec) < size THEN Len(rec) ELSE size
        cut == IF num > 0 THEN num - 1 ELSE 0
    IN  SubSeq(rec, cut + 1, Len(rec))

\* CurrentRecord::remove_data: drain(0..num), num clamped to the length
remove_data(rec, size) ==
    LET num == IF Len(rec) < size THEN Len(rec) ELSE size
    IN  SubSeq(rec, num + 1, Len(rec))

----------------------------------------------------------------------------
(* transfer.rs *)

\* one line of the body: the record formatted by set_transfer_data with
\* the tag of the Transfer at that moment
FormatLine(it, tag) == [line |-> "point", tag |-> tag, ts |-> it.clock]

\* loop that breaks one record late (`count > 128`)
PushLines_BreakLate(data, b, tag) ==
    LET count == IF Len(data) < ChunkSize + 1 THEN Len(data)
                 ELSE ChunkSize + 1
    IN  [body |-> b \o [i \in 1..count |-> FormatLine(data[i], tag)],
         count |-> count]

\* a loop over `data` from its newest record
PushLines_NewestFirst(data, b, tag) ==
    LET count == IF Len(data) < ChunkSize THEN Len(data) ELSE ChunkSize
    IN  [body |-> b \o [i \in 1..count |->
                            FormatLine(data[Len(data) + 1 - i], tag)],
         count |-> count]

\* the loop of set_transfer_data over `data`: pushes one line per record,
\* in the order of `data`, onto the body b and breaks when count reaches 128
PushLines(data, b, tag) ==
    LET count == IF Len(data) < ChunkSize THEN Len(data) ELSE ChunkSize
    IN  [body |-> b \o [i \in 1..count |-> FormatLine(data[i], tag)],
         count |-> count]

\* set_transfer_data without the check of the pending flag
set_transfer_data_NoPendingCheck(data, b, t, tag) ==
    IF Len(data) = 0
    THEN [body |-> b, txreq |-> t, count |-> 0]
    ELSE LET count == IF Len(data) < ChunkSize THEN Len(data) ELSE ChunkSize
         IN  [body |-> b \o [i \in 1..count |-> FormatLine(data[i], tag)],
              txreq |-> TRUE, count |-> count]

\* set_transfer_data that pushes its lines before it looks at the flag
set_transfer_data_PushFirst(data, b, t, tag) ==
    IF Len(data) = 0
    THEN [body |-> b, txreq |-> t, count |-> 0]
    ELSE LET r == PushLines(data, b, tag)
         IN  IF t = TRUE
             THEN [body |-> r.body, txreq |-> t, count |-> 0]
             ELSE [body |-> r.body, txreq |-> TRUE, count |-> r.count]

\* Transfer::set_transfer_data: new slot and return value
set_transfer_data(data, b, t, tag) ==
    IF Len(data) = 0
    THEN [body |-> b, txreq |-> t, count |-> 0]
    ELSE IF t = TRUE
         THEN [body |-> b, txreq |-> t, count |-> 0]
         ELSE LET r == PushLines(data, b, tag)
              IN  [body |-> r.body, txreq |-> TRUE, count |-> r.count]

\* set_tag that also rewrites the lines already in the body
set_tag_Retag(new_tag, b) ==
    [tag |-> new_tag,
     body |-> [i \in 1..Len(b) |-> [b[i] EXCEPT !.tag = new_tag]]]

\* Transfer::set_tag: the tag of the Transfer changes, the slot does not
set_tag(new_tag, b) == [tag |-> new_tag, body |-> b]

\* Transfer::transfer: Ok only for a response with status 204
transfer(resp) ==
    IF resp.transport THEN "Err"
    ELSE IF resp.status = SuccessStatus THEN "Ok" ELSE "Err"

\* delivery thread that leaves the pending flag set after a success
AfterTransfer_KeepFlag(r, b, t) ==
    [txreq |-> t, body |-> <<>>]

\* delivery thread that keeps the body of a failed POST for the next attempt
AfterTransfer_KeepBodyOnErr(r, b, t) ==
    [txreq |-> IF r = "Ok" THEN FALSE ELSE t,
     body |-> IF r = "Ok" THEN <<>> ELSE b]

\* delivery thread that never clears the body
AfterTransfer_KeepBody(r, b, t) ==
    [txreq |-> IF r = "Ok" THEN FALSE ELSE t, body |-> b]

\* Transfer::start, after the POST: `match ret {...}; lck.body.clear()`
AfterTransfer(r, b, t) ==
    [txreq |-> IF r = "Ok" THEN FALSE ELSE t, body |-> <<>>]

----------------------------------------------------------------------------
(* main.rs: the sampling loop *)

\* connectivity after the RSSI check of one tick
WifiAfterCheck(rssi, reconnected) ==
    IF rssi = 0 THEN reconnected ELSE TRUE

\* a test that lets one record more in
BufferFull_Late(cur, max) == cur > max

\* `if current_record >= max_records`
BufferFull(cur, max) == cur >= max

\* restart that already fires at exactly half the capacity
RestartLogging_AtHalf(stopped, logging, cur, max) ==
    stopped /\ ~logging /\ cur <= (max \div 2)

\* `logging_stopped_by_buffer_full && !logging_start
\*      && current_record < max_records / 2`
RestartLogging(stopped, logging, cur, max) ==
    stopped /\ ~logging /\ cur < (max \div 2)

\* calibration(): Err at the first failing sample, else the two averages
calibration(cal) ==
    IF cal.fail_at \in 1..CalSamples
    THEN [ok |-> FALSE, current |-> 0, voltage |-> 0,
          samples |-> cal.fail_at - 1]
    ELSE [ok |-> TRUE,
          current |-> (CalSamples * cal.current) \div CalSamples,
          voltage |-> (CalSamples * cal.voltage) \div CalSamples,
          samples |-> CalSamples]

\* the offsets in use after the run, reset when the run failed
OffsetsAfter_ResetOnErr(r, cur_off, vol_off) ==
    IF r.ok THEN [current |-> r.current, voltage |-> r.voltage]
    ELSE [current |-> 0, voltage |-> 0]

\* `match calibration(..)`: the offsets in use after the run
OffsetsAfter(r, cur_off, vol_off) ==
    IF r.ok THEN [current |-> r.current, voltage |-> r.voltage]
    ELSE [current |-> cur_off, voltage |-> vol_off]

\* `if LAST_BUTTON_STATE && !current_button_state`
PressDetected(last, cur) == last /\ ~cur

\* the long press test without its two flags
LongPress_Repeating(cur, t, start, calibrating, triggered) ==
    ~cur /\ (t - start) >= LONG_PRESS_TIME_MS

\* the long press test of the loop
LongPress(cur, t, start, calibrating, triggered) ==
    ~cur /\ (t - start) >= LONG_PRESS_TIME_MS /\ ~calibrating /\ ~triggered

\* `if !LAST_BUTTON_STATE && current_button_state`
ReleaseDetected(last, cur) == ~last /\ cur

\* `if !CALIBRATION_IN_PROGRESS && press_duration < LONG_PRESS_TIME_MS`
ShortPress(calibrating, press_duration) ==
    ~calibrating /\ press_duration < LONG_PRESS_TIME_MS

\* the channel step without the wrap to 1
NextChannel_NoWrap(ch) == ch + 1

\* `channel += 1; if channel > 4 { channel = 1; }`
NextChannel(ch) == IF ch + 1 > 4 THEN 1 ELSE ch + 1

\* `format!("ch{}", channel)`
TagOf(ch) == <<"ch", ch>>

\* value of a quantity of the tick's CurrentLog: the fresh read minus the
\* offset, or the field of CurrentLog::default() when the read failed
Measured(read, offset) == IF read.ok THEN read.val - offset ELSE 0

\* the three reads of one tick in which the first failure ends the reading
Readings_StopAtError(vread, cread, pread, offs) ==
    [voltage |-> Measured(vread, offs.voltage),
     current |-> IF vread.ok THEN Measured(cread, offs.current) ELSE 0,
     power   |-> IF vread.ok /\ cread.ok THEN Measured(pread, 0) ELSE 0]

\* the three `match ..._read(..)` of one tick, each on its own
Readings(vread, cread, pread, offs) ==
    [voltage |-> Measured(vread, offs.voltage),
     current |-> Measured(cread, offs.current),
     power   |-> Measured(pread, 0)]

\* a percentage rounded up instead of truncated
Watermark_RoundUp(cur, max) == (cur * 100 + max - 1) \div max

\* `(current_record as u32) * 100 / max_records as u32`
Watermark(cur, max) == (cur * 100) \div max

\* a loop that submits whenever the buffer holds something
ShouldSubmit_AnyLink(wifi, cur) == cur > 0

\* `if wifi_enable == true && current_record > 0`
ShouldSubmit(wifi, cur) == wifi = TRUE /\ cur > 0

\* a restart that forgets to clear the mark of the stop
AfterRestart_KeepMark(rst, logging, stopped) ==
    [logging_start |-> IF rst THEN TRUE ELSE logging,
     logging_stopped_by_buffer_full |-> stopped]

\* `if .. { logging_start = true; logging_stopped_by_buffer_full = false; }`
AfterRestart(rst, logging, stopped) ==
    [logging_start |-> IF rst THEN TRUE ELSE logging,
     logging_stopped_by_buffer_full |-> IF rst THEN FALSE ELSE stopped]

\* one iteration of the loop of main()
Tick(in) ==
    /\ ticks < MaxTicks
    /\ LET wifi == WifiAfterCheck(in.rssi, in.reconnected)
           \* button polling
           t    == now + in.dt
           cur_btn == pin
           clr  == MESSAGE_CLEAR_TIME > 0 /\ t >= MESSAGE_CLEAR_TIME
           msg0 == IF clr THEN "" ELSE txt.message
           mct0 == IF clr THEN 0 ELSE MESSAGE_CLEAR_TIME
           det  == PressDetected(LAST_BUTTON_STATE, cur_btn)
           start1 == IF det THEN t ELSE BUTTON_PRESS_START_TIME
           trg1 == IF det THEN FALSE ELSE LONG_PRESS_TRIGGERED
           long == LongPress(cur_btn, t, start1, CALIBRATION_IN_PROGRESS,
                             trg1)
           r    == calibration(in.cal)
           offs == IF long
                   THEN OffsetsAfter(r, average_current_offset,
                                     average_voltage_offset)
                   ELSE [current |-> average_current_offset,
                         voltage |-> average_voltage_offset]
           nvs1 == IF long /\ r.ok /\ in.nvs_ok
                   THEN [nvs EXCEPT !.current_offset = r.current,
                                    !.voltage_offset = r.voltage]
                   ELSE nvs
           msg1 == IF long
                   THEN (IF r.ok THEN "Calibration OK"
                         ELSE "Calibration Failed")
                   ELSE msg0
           mct1 == IF long THEN t + MessageHoldMs ELSE mct0
           cip1 == IF long THEN TRUE ELSE CALIBRATION_IN_PROGRESS
           trg2 == IF long THEN TRUE ELSE trg1
           rel  == ReleaseDetected(LAST_BUTTON_STATE, cur_btn)
           short == rel /\ ShortPress(cip1, t - start1)
           ch1  == IF short THEN NextChannel(channel) ELSE channel
           nvs2 == IF short /\ in.nvs_ok THEN [nvs1 EXCEPT !.channel = ch1]
                   ELSE nvs1
           \* sensor reads
           rd   == Readings(in.vread, in.cread, in.pread, offs)
           volt == rd.voltage
           curr == rd.current
           powr == rd.power
           batt == in.adc * 2
           data == [CurrentLog(clock + 1) EXCEPT
                        !.voltage = volt, !.current = curr,
                        !.power = powr, !.battery = batt]
           \* buffer, admission control, submit
           rec1 == IF logging_start THEN record(clogs, data) ELSE clogs
           cur  == get_size(rec1)
           log1 == IF BufferFull(cur, max_records) THEN FALSE
                   ELSE logging_start
           stp1 == IF BufferFull(cur, max_records) THEN TRUE
                   ELSE logging_stopped_by_buffer_full
           rst  == RestartLogging(stp1, log1, cur, max_records)
           call == ShouldSubmit(wifi, cur)
           st   == IF short THEN set_tag(TagOf(ch1), body)
                   ELSE [tag |-> influxdb_tag, body |-> body]
           res  == set_transfer_data(get_all_data(rec1), st.body, txreq,
                                     st.tag)
           cnt  == IF call THEN res.count ELSE 0
       IN  /\ clock' = clock + 1
           /\ ticks' = ticks + 1
           /\ wifi_enable' = wifi
           /\ current_record' = cur
           /\ logging_start' = AfterRestart(rst, log1, stp1).logging_start
           /\ logging_stopped_by_buffer_full' =
                 AfterRestart(rst, log1, stp1).logging_stopped_by_buffer_full
           /\ logs' = IF call THEN get_all_data(rec1) ELSE <<>>
           /\ txcount' = cnt
           /\ submit_at' = IF call THEN th_pc ELSE "none"
           /\ call => tx_guard = "free"
           /\ body' = IF call THEN res.body ELSE st.body
           /\ txreq' = IF call THEN res.txreq ELSE txreq
           /\ clogs' = IF cnt > 0 THEN remove_data(rec1, cnt) ELSE rec1
           /\ appended' = appended + (Len(rec1) - Len(clogs))
           /\ removed' = removed + Min(cnt, Len(rec1))
           /\ current_time' = t
           /\ now' = IF long THEN t + CalSleepMs * r.samples ELSE t
           /\ LAST_BUTTON_STATE' = cur_btn
           /\ BUTTON_PRESS_START_TIME' = start1
           /\ CALIBRATION_IN_PROGRESS' = IF rel THEN FALSE ELSE cip1
           /\ LONG_PRESS_TRIGGERED' = IF rel THEN FALSE ELSE trg2
           /\ MESSAGE_CLEAR_TIME' = mct1
           /\ channel' = ch1
           /\ influxdb_tag' = st.tag
           /\ nvs' = nvs2
           /\ average_current_offset' = offs.current
           /\ average_voltage_offset' = offs.voltage
           /\ calib' = [ran |-> long, ok |-> long /\ r.ok,
                        short |-> short,
                        nvs_put |-> IF short THEN ch1 ELSE 0,
                        nvs_ok |-> IF short \/ (long /\ r.ok)
                                   THEN in.nvs_ok ELSE TRUE,
                        fail_at |-> IF long THEN in.cal.fail_at ELSE 0,
                        msg_at |-> IF long THEN t + CalSleepMs * r.samples
                                   ELSE IF clr THEN -1 ELSE calib.msg_at]
           /\ hold' = IF long THEN [hold EXCEPT !.cals = @ + 1] ELSE hold
           /\ txt' = [txt EXCEPT
                        !.wifi_rssi = in.rssi,
                        !.wifi = IF wifi THEN "Connected" ELSE "Disconnected",
                        !.status = IF logging_start THEN "Start" ELSE "Stop",
                        !.message = msg1,
                        !.channel = ch1,
                        !.battery = batt,
                        !.voltage = volt,
                        !.current = curr,
                        !.power = powr,
                        !.buffer_water_mark = Watermark(cur, max_records)]
           /\ sense' = [vread |-> in.vread, cread |-> in.cread,
                        pread |-> in.pread,
                        vgood |-> IF in.vread.ok THEN volt ELSE sense.vgood,
                        cgood |-> IF in.cread.ok THEN curr ELSE sense.cgood,
                        pgood |-> IF in.pread.ok THEN powr ELSE sense.pgood]
    /\ stamp' = [f \in StatusFields |-> status_tick]
    /\ status_tick' = status_tick + 1
    /\ writes' = writes
    /\ UNCHANGED <<max_records, threadVars, op, pin, done, dispVars, ctl_pc,
                   decodeVars, busVars>>

----------------------------------------------------------------------------
(* transfer.rs: the delivery thread of Transfer::start *)

\* `EspHttpConnection::new(...)?` fails: the closure returns, the thread ends
HttpConnectionFail ==
    /\ th_pc = "wait"
    /\ th_pc' = "exit"
    /\ UNCHANGED <<mainVars, clogs, body, txreq, request, ret, lost, tx_guard,
                   appended, removed, op, ctlVars, dispVars, statusVars,
                   decodeVars, busVars>>

\* the delivery thread keeps the transfer-job guard while it posts
GuardAfterCopy_Kept == "thread"

\* `drop(lck)` after the copy of the body: the guard is free again
GuardAfterCopy == "free"

\* lock; `if lck.txreq == false { continue }`; copy the body; unlock
TransferPoll ==
    /\ th_pc = "wait"
    /\ tx_guard = "free"
    /\ tx_guard' = GuardAfterCopy
    /\ txreq = TRUE
    /\ request' = body
    /\ th_pc' = "post"
    /\ UNCHANGED <<mainVars, clogs, body, txreq, ret, lost,
                   appended, removed, op, ctlVars, dispVars, statusVars,
                   decodeVars, busVars>>

\* the POST returns; lock; match ret; body.clear(); unlock
TransferDone(resp) ==
    /\ th_pc = "post"
    /\ tx_guard = "free"
    /\ tx_guard' = "free"
    /\ LET r == transfer(resp)
           s == AfterTransfer(r, body, txreq)
       IN  /\ ret' = r
           /\ txreq' = s.txreq
           /\ body' = s.body
           /\ lost' = IF r = "Err"
                      THEN lost \cup {request[i].ts : i \in 1..Len(request)}
                      ELSE lost
    /\ th_pc' = "wait"
    /\ request' = <<>>
    /\ UNCHANGED <<mainVars, clogs, appended, removed, op, ctlVars, dispVars,
                   statusVars, decodeVars, busVars>>

----------------------------------------------------------------------------
(* Specification of the firmware *)

InitSlot ==
    /\ body = <<>>
    /\ txreq = FALSE
    /\ th_pc = "wait"
    /\ tx_guard = "free"
    /\ request = <<>>
    /\ ret = "none"
    /\ lost = {}

\* DisplayPanel::new, and `dp.set_channel(channel)` before the loop
InitDisplayText(ch) ==
    [voltage |-> 0, message |-> "", current |-> 0, power |-> 0,
     wifi_rssi |-> 0, battery |-> 0, status |-> "Stop",
     wifi |-> "Disconnected", buffer_water_mark |-> 0, channel |-> ch,
     voltage_range |-> 1, current_range |-> 1, power_range |-> 1]

\* locals of the rendering loop before its first pass
InitDisplay ==
    /\ guard = "free"
    /\ render_pc = "sleep"
    /\ loopcount = 0
    /\ battery_level = 0
    /\ prev = [voltage |-> -1000, current |-> -1000, power |-> -1000,
               voltage_range |-> 255, current_range |-> 255,
               power_range |-> 255, status |-> "Stop",
               wifi |-> "Disconnected", wifi_rssi |-> -999,
               buffer_water_mark |-> 999, battery |-> -1000,
               battery_level |-> 999, channel |-> 0, message |-> "",
               loopcount_display |-> 0]
    /\ renders = 0
    /\ ladder_step = 0
    /\ held = [battery |-> -1000, levels |-> <<0>>]
    /\ ctl_pc = "wifi_rssi"
    /\ status_tick = 1
    /\ writes = 0
    /\ stamp = [f \in StatusFields |-> 0]
    /\ bus_guard = "free"
    /\ sensor_pc = "idle"
    /\ bus_last = "none"
    /\ curt_buf = <<0, 0, 0>>
    /\ current_reg = [read |-> FALSE, val |-> 0]

\* a start that takes whatever number storage holds
LoadChannel_NoValidate(boot) ==
    IF boot.readable /\ boot.stored # NoKey THEN boot.stored ELSE 1

\* `match nvs.get_u8("channel") { Ok(Some(ch)) => if ch >= 1 && ch <= 4
\*  { ch } else { 1 }, Ok(None) => 1, Err(e) => 1 }`
LoadChannel(boot) ==
    IF boot.readable /\ boot.stored \in 1..4 THEN boot.stored ELSE 1

\* storage that holds channel ch and can be read
Stored(ch) == [stored |-> ch, readable |-> TRUE]

\* button statics, channel and offsets when the loop is entered: the channel
\* is loaded from storage, no calibration is in storage
InitController(boot) ==
    /\ now = 0
    /\ pin = TRUE
    /\ hold = [since |-> -1, cals |-> 0]
    /\ done = [ms |-> 0, cals |-> 0]
    /\ current_time = 0
    /\ LAST_BUTTON_STATE = TRUE
    /\ BUTTON_PRESS_START_TIME = 0
    /\ CALIBRATION_IN_PROGRESS = FALSE
    /\ MESSAGE_CLEAR_TIME = 0
    /\ LONG_PRESS_TRIGGERED = FALSE
    /\ channel = LoadChannel(boot)
    /\ influxdb_tag = TagOf(LoadChannel(boot))
    /\ nvs = [channel |-> boot.stored, readable |-> boot.readable,
              current_offset |-> 0, voltage_offset |-> 0]
    /\ average_current_offset = 0
    /\ average_voltage_offset = 0
    /\ txt = InitDisplayText(LoadChannel(boot))
    /\ sense = [vread |-> [ok |-> TRUE, val |-> 0],
                cread |-> [ok |-> TRUE, val |-> 0],
                pread |-> [ok |-> TRUE, val |-> 0],
                vgood |-> 0, cgood |-> 0, pgood |-> 0]
    /\ calib = [ran |-> FALSE, ok |-> FALSE, short |-> FALSE, nvs_put |-> 0,
                nvs_ok |-> TRUE, fail_at |-> 0, msg_at |-> -1]

\* state when the loop of main() is entered, with no channel in storage
Init ==
    /\ max_records \in 1..MaxCapacity
    /\ clock = 0
    /\ ticks = 0
    /\ clogs = <<>>
    /\ logging_start = TRUE
    /\ logging_stopped_by_buffer_full = FALSE
    /\ wifi_enable = FALSE
    /\ current_record = 0
    /\ logs = <<>>
    /\ txcount = 0
    /\ submit_at = "none"
    /\ InitSlot
    /\ InitController(Stored(1))
    /\ InitDisplay
    /\ appended = 0
    /\ removed = 0
    /\ op = <<"none", 0>>

Next ==
    \/ \E in \in NominalInputs : Tick(in)
    \/ HttpConnectionFail
    \/ TransferPoll
    \/ \E resp \in Responses : TransferDone(resp)

Spec == Init /\ [][Next]_vars

\* the link is up or down, a reconnect never helps
LiveInputs ==
    TickInputs(RssiValues, {FALSE}, {100}, {NominalRead}, {NominalCal},
               {TRUE})

\* a POST that is answered with 204
Delivered == [transport |-> FALSE, status |-> SuccessStatus]

\* the loop against a delivery thread that always gets its connection and
\* whose POSTs all succeed
NextLive ==
    \/ \E in \in LiveInputs : Tick(in)
    \/ TransferPoll
    \/ TransferDone(Delivered)

\* `loop { thread::sleep(100ms); .. }` and the loop of the delivery thread
\* with `wait_notification(100)` both go on for ever
SpecLive ==
    /\ Init
    /\ [][NextLive]_vars
    /\ WF_vars(\E in \in LiveInputs : Tick(in))
    /\ WF_vars(TransferPoll)
    /\ WF_vars(TransferDone(Delivered))

\* the firmware after n ticks without connectivity: n records queued,
\* nothing submitted yet, capacity larger than one chunk
InitLarge ==
    /\ max_records \in LargeCapacities
    /\ \E n \in (max_records - PrefillGap)..(max_records - 1) :
          /\ clock = n
          /\ clogs = [i \in 1..n |-> CurrentLog(i)]
          /\ current_record = n
          /\ appended = n
    /\ ticks = 0
    /\ logging_start = TRUE
    /\ logging_stopped_by_buffer_full = FALSE
    /\ wifi_enable = FALSE
    /\ logs = <<>>
    /\ txcount = 0
    /\ submit_at = "none"
    /\ InitSlot
    /\ InitController(Stored(1))
    /\ InitDisplay
    /\ removed = 0
    /\ op = <<"none", 0>>

SpecLarge == InitLarge /\ [][Next]_vars

\* the firmware with sensor reads that may fail, each quantity on its own
SenseInputs ==
    TickInputs({-60}, {TRUE}, {100}, ReadResults, {NominalCal}, {TRUE})

InitSense == Init /\ max_records = 2

NextSense ==
    \/ \E in \in SenseInputs : ticks < MaxSenseTicks /\ Tick(in)
    \/ HttpConnectionFail
    \/ TransferPoll
    \/ \E resp \in Responses : TransferDone(resp)

SpecSense == InitSense /\ [][NextSense]_vars

----------------------------------------------------------------------------
(* Specification of the buffer API: any sequence of record / remove_data *)

BufRecord(c) ==
    /\ ticks < MaxCalls
    /\ Len(clogs) < MaxLen
    /\ ticks' = ticks + 1
    /\ clogs' = record(clogs, CurrentLog(c))
    /\ appended' = appended + 1
    /\ op' = <<"record", c>>
    /\ UNCHANGED <<apiFrame, removed, ctlVars, dispVars, statusVars,
                   decodeVars, busVars>>

BufRemove(n) ==
    /\ ticks < MaxCalls
    /\ ticks' = ticks + 1
    /\ clogs' = remove_data(clogs, n)
    /\ removed' = removed + Min(n, Len(clogs))
    /\ op' = <<"remove_data", n>>
    /\ UNCHANGED <<apiFrame, appended, ctlVars, dispVars, statusVars,
                   decodeVars, busVars>>

NextBuffer ==
    \/ \E c \in ApiClocks : BufRecord(c)
    \/ \E n \in 0..MaxDrain : BufRemove(n)

SpecBuffer == Init /\ [][NextBuffer]_vars

----------------------------------------------------------------------------
(* The rendering loop of DisplayPanel::start, and the setters of DisplayPanel *)

Abs(x) == IF x < 0 THEN 0 - x ELSE x

\* `match lck.voltage_range { 0 => .., 1 => .., _ => .. }`
auto_range(range, value_abs) ==
    CASE range = 0 -> IF value_abs >= 2000 THEN 1 ELSE 0
      [] range = 1 -> IF value_abs < 1500 THEN 0 ELSE 1
      [] OTHER -> 1

\* the three matches with the current range following the voltage
Ranges_Coupled(t) ==
    [t EXCEPT !.voltage_range = auto_range(t.voltage_range, Abs(t.voltage)),
              !.current_range = auto_range(t.current_range, Abs(t.voltage)),
              !.power_range = auto_range(t.power_range, Abs(t.power))]

\* the three auto-range matches of one pass
Ranges(t) ==
    [t EXCEPT !.voltage_range = auto_range(t.voltage_range, Abs(t.voltage)),
              !.current_range = auto_range(t.current_range, Abs(t.current)),
              !.power_range = auto_range(t.power_range, Abs(t.power))]

\* the ladder with the level taken straight from the voltage
battery_ladder_Jump(level, battery_voltage) ==
    CASE battery_voltage >= 4250 -> 200
      [] battery_voltage >= 4050 -> 100
      [] battery_voltage >= 3950 -> 80
      [] battery_voltage >= 3850 -> 60
      [] battery_voltage >= 3750 -> 40
      [] battery_voltage >= 3650 -> 20
      [] OTHER -> 0

\* the ladder with the 40 -> 20 step at 3.65
battery_ladder_LateDrop(level, battery_voltage) ==
    CASE level = 0 -> IF battery_voltage >= 3650 THEN 20 ELSE 0
      [] level = 20 -> IF battery_voltage >= 3750 THEN 40
                       ELSE IF battery_voltage < 3600 THEN 0 ELSE 20
      [] level = 40 -> IF battery_voltage >= 3850 THEN 60
                       ELSE IF battery_voltage < 3650 THEN 20 ELSE 40
      [] OTHER -> 0

\* a ladder whose 40 -> 20 threshold lies above the 20 -> 40 threshold
battery_ladder_Overlap(level, battery_voltage) ==
    CASE level = 0 -> IF battery_voltage >= 3650 THEN 20 ELSE 0
      [] level = 20 -> IF battery_voltage >= 3750 THEN 40
                       ELSE IF battery_voltage < 3600 THEN 0 ELSE 20
      [] level = 40 -> IF battery_voltage >= 3850 THEN 60
                       ELSE IF battery_voltage < 3760 THEN 20 ELSE 40
      [] level = 60 -> IF battery_voltage >= 3950 THEN 80
                       ELSE IF battery_voltage < 3800 THEN 40 ELSE 60
      [] level = 80 -> IF battery_voltage >= 4050 THEN 100
                       ELSE IF battery_voltage < 3900 THEN 60 ELSE 80
      [] level = 100 -> IF battery_voltage >= 4250 THEN 200
                        ELSE IF battery_voltage < 4000 THEN 80 ELSE 100
      [] level = 200 -> IF battery_voltage < 4150 THEN 100 ELSE 200
      [] OTHER -> 0

\* `match battery_level { 0 => .., 20 => .., .., 200 => .., _ => .. }`
battery_ladder(level, battery_voltage) ==
    CASE level = 0 -> IF battery_voltage >= 3650 THEN 20 ELSE 0
      [] level = 20 -> IF battery_voltage >= 3750 THEN 40
                       ELSE IF battery_voltage < 3600 THEN 0 ELSE 20
      [] level = 40 -> IF battery_voltage >= 3850 THEN 60
                       ELSE IF battery_voltage < 3700 THEN 20 ELSE 40
      [] level = 60 -> IF battery_voltage >= 3950 THEN 80
                       ELSE IF battery_voltage < 3800 THEN 40 ELSE 60
      [] level = 80 -> IF battery_voltage >= 4050 THEN 100
                       ELSE IF battery_voltage < 3900 THEN 60 ELSE 80
      [] level = 100 -> IF battery_voltage >= 4250 THEN 200
                        ELSE IF battery_voltage < 4000 THEN 80 ELSE 100
      [] level = 200 -> IF battery_voltage < 4150 THEN 100 ELSE 200
      [] OTHER -> 0

wifi_changed(t, p, lc) ==
    CASE t.wifi = "Disconnected" /\ p.wifi = "Disconnected" -> FALSE
      [] t.wifi = "Connecting" /\ p.wifi = "Connecting" ->
            lc # p.loopcount_display
      [] t.wifi = "Connected" /\ p.wifi = "Connected" ->
            t.wifi_rssi # p.wifi_rssi
      [] OTHER -> TRUE

status_changed(t, p) == t.status # p.status

\* a comparison that leaves the channel out
display_needs_update_NoChannel(t, p, level, lc) ==
    \/ t.voltage # p.voltage
    \/ t.current # p.current
    \/ t.power # p.power
    \/ t.voltage_range # p.voltage_range
    \/ t.current_range # p.current_range
    \/ t.power_range # p.power_range
    \/ status_changed(t, p)
    \/ wifi_changed(t, p, lc)
    \/ t.buffer_water_mark # p.buffer_water_mark
    \/ t.battery # p.battery
    \/ level # p.battery_level
    \/ t.message # p.message

display_needs_update(t, p, level, lc) ==
    \/ t.voltage # p.voltage
    \/ t.current # p.current
    \/ t.power # p.power
    \/ t.voltage_range # p.voltage_range
    \/ t.current_range # p.current_range
    \/ t.power_range # p.power_range
    \/ status_changed(t, p)
    \/ wifi_changed(t, p, lc)
    \/ t.buffer_water_mark # p.buffer_water_mark
    \/ t.battery # p.battery
    \/ level # p.battery_level
    \/ t.channel # p.channel
    \/ t.message # p.message

\* "Update previous values for next comparison"
Repainted(t, level, lc) ==
    [voltage |-> t.voltage, current |-> t.current, power |-> t.power,
     voltage_range |-> t.voltage_range, current_range |-> t.current_range,
     power_range |-> t.power_range, status |-> t.status, wifi |-> t.wifi,
     wifi_rssi |-> t.wifi_rssi, buffer_water_mark |-> t.buffer_water_mark,
     battery |-> t.battery, battery_level |-> level, channel |-> t.channel,
     message |-> t.message, loopcount_display |-> lc]

\* what the rendering loop and the setters leave alone
coreVars == <<mainVars, clogs, body, txreq, threadVars, appended, removed,
              op, now, pin, hold, done, buttonVars, sense>>
renderFrame == <<coreVars, statusVars, decodeVars, busVars>>

\* a counter that is reset one pass late
NextLoopcount_Late(lc) == IF lc > 15 THEN 0 ELSE lc + 1

\* `loopcount += 1; if loopcount > 15 { loopcount = 0; }`
NextLoopcount(lc) == IF lc + 1 > 15 THEN 0 ELSE lc + 1

\* the latest levels of a run of render ticks that read the same battery
\* voltage: the level before the run, then the level after each tick
Latest(levels) ==
    IF Len(levels) > HeldLen THEN SubSeq(levels, 2, Len(levels)) ELSE levels

Held(h, level, battery_voltage) ==
    IF battery_voltage = h.battery
    THEN [h EXCEPT !.levels =
             Latest(Append(@, battery_ladder(level, battery_voltage)))]
    ELSE [battery |-> battery_voltage,
          levels |-> <<level, battery_ladder(level, battery_voltage)>>]

\* the loop takes the status guard, adjusts the ranges and the battery
\* level, and draws the frame if something changed
RenderBegin ==
    /\ render_pc = "sleep"
    /\ guard = "free"
    /\ LET lc  == NextLoopcount(loopcount)
           t1  == Ranges(txt)
           lvl == battery_ladder(battery_level, txt.battery)
       IN  /\ guard' = "render"
           /\ loopcount' = lc
           /\ txt' = t1
           /\ battery_level' = lvl
           /\ render_pc' = IF display_needs_update(t1, prev, lvl, lc)
                           THEN "flush" ELSE "drop"
    /\ renders' = renders + 1
    /\ ladder_step' = IF /\ ladder_step = renders
                         /\ renders < Len(LadderSeq)
                         /\ txt.battery = LadderSeq[renders + 1]
                      THEN ladder_step + 1 ELSE ladder_step
    /\ held' = Held(held, battery_level, txt.battery)
    /\ UNCHANGED <<renderFrame, prev>>

\* `display.flush()`: the frame goes out on the bus, then the prev_* are set
RenderFlush ==
    /\ render_pc = "flush"
    /\ prev' = Repainted(txt, battery_level, loopcount)
    /\ render_pc' = "drop"
    /\ UNCHANGED <<renderFrame, txt, guard, loopcount, battery_level, renders,
                   ladder_step, held>>

\* `drop(lck)`, then the loop sleeps
RenderDrop ==
    /\ render_pc = "drop"
    /\ guard' = "free"
    /\ render_pc' = "sleep"
    /\ UNCHANGED <<renderFrame, txt, loopcount, battery_level, prev, renders,
                   ladder_step, held>>

set_voltage(vol, cur, pwr) ==
    /\ guard = "free"
    /\ txt' = [txt EXCEPT !.voltage = vol, !.current = cur, !.power = pwr]
    /\ UNCHANGED <<coreVars, dispVars, decodeVars, busVars>>

set_battery(bat) ==
    /\ guard = "free"
    /\ txt' = [txt EXCEPT !.battery = bat]
    /\ UNCHANGED <<coreVars, dispVars, decodeVars, busVars>>

\* the loop of main() is entered, the capacity does not matter
InitRender == Init /\ max_records = 1

\* the rendering loop against any sequence of set_voltage calls
NextRange ==
    \/ \E v \in RangeValues, c \in RangeValues, p \in RangeValues :
          set_voltage(v, c, p) /\ UNCHANGED statusVars
    \/ renders < MaxRangeRenders /\ RenderBegin
    \/ RenderFlush
    \/ RenderDrop

SpecRange == InitRender /\ [][NextRange]_vars

\* the rendering loop against any sequence of set_battery calls
NextLadder ==
    \/ \E b \in BatteryValues : set_battery(b) /\ UNCHANGED statusVars
    \/ renders < MaxLadderRenders /\ RenderBegin
    \/ RenderFlush
    \/ RenderDrop

SpecLadder == InitRender /\ [][NextLadder]_vars

\* the rendering loop against battery voltages that change or stay
NextSteady ==
    \/ \E b \in BandValues : set_battery(b) /\ UNCHANGED statusVars
    \/ renders < MaxSteadyRenders /\ RenderBegin
    \/ RenderFlush
    \/ RenderDrop

SpecSteady == InitRender /\ [][NextSteady]_vars

----------------------------------------------------------------------------
(* The status writes of one pass of the loop of main(), each setter taking
   the status guard on its own, against the rendering loop *)

set_wifi_rssi(rssi) ==
    /\ guard = "free"
    /\ txt' = [txt EXCEPT !.wifi_rssi = rssi]
    /\ UNCHANGED <<coreVars, dispVars, decodeVars, busVars>>

set_wifi_status(status) ==
    /\ guard = "free"
    /\ txt' = [txt EXCEPT !.wifi = status]
    /\ UNCHANGED <<coreVars, dispVars, decodeVars, busVars>>

set_current_status(status) ==
    /\ guard = "free"
    /\ txt' = [txt EXCEPT !.status = status]
    /\ UNCHANGED <<coreVars, dispVars, decodeVars, busVars>>

set_buffer_watermark(wm) ==
    /\ guard = "free"
    /\ txt' = [txt EXCEPT !.buffer_water_mark = wm]
    /\ UNCHANGED <<coreVars, dispVars, decodeVars, busVars>>

set_err_message(msg) ==
    /\ guard = "free"
    /\ txt' = [txt EXCEPT !.message = msg]
    /\ UNCHANGED <<coreVars, dispVars, decodeVars, busVars>>

set_channel(ch) ==
    /\ guard = "free"
    /\ txt' = [txt EXCEPT !.channel = ch]
    /\ UNCHANGED <<coreVars, dispVars, decodeVars, busVars>>

\* the loop moves from the setter call at pc to the one at next, the
\* fields written carry the number of the pass
Written(pc, next, fields) ==
    /\ ctl_pc = pc
    /\ ctl_pc' = next
    /\ stamp' = [f \in StatusFields |->
                    IF f \in fields THEN status_tick ELSE stamp[f]]
    /\ status_tick' = IF next = "wifi_rssi" THEN status_tick + 1
                      ELSE status_tick
    /\ writes' = writes

\* main.rs 336 .. 548: the setter calls of one pass, in program order
StatusWrite ==
    \/ set_wifi_rssi(-60) /\ Written("wifi_rssi", "wifi", {"wifi_rssi"})
    \/ set_wifi_status("Connected") /\ Written("wifi", "status", {"wifi"})
    \/ set_current_status("Start")
          /\ Written("status", "battery", {"status"})
    \/ set_battery(3700) /\ Written("battery", "voltage", {"battery"})
    \/ \E v \in ReadValues :
          set_voltage(v, v, v)
             /\ Written("voltage", "buffer_water_mark",
                        {"voltage", "current", "power"})
    \/ set_buffer_watermark(0)
          /\ Written("buffer_water_mark", "wifi_rssi", {"buffer_water_mark"})

NextStatus ==
    \/ status_tick <= MaxStatusTicks /\ StatusWrite
    \/ renders < MaxStatusRenders /\ RenderBegin
    \/ RenderFlush
    \/ RenderDrop

SpecStatus == InitRender /\ [][NextStatus]_vars

\* one setter call, counted
GateWrite ==
    /\ \/ \E st \in WifiStates : set_wifi_status(st)
       \/ set_wifi_rssi(-60)
       \/ set_current_status("Start")
       \/ set_battery(3700)
       \/ set_voltage(1400, 1400, 1400)
       \/ set_buffer_watermark(50)
       \/ set_err_message("Calibration OK")
       \/ set_channel(2)
    /\ writes' = writes + 1
    /\ UNCHANGED <<ctl_pc, status_tick, stamp>>

\* the rendering loop against any few setter calls
NextGate ==
    \/ writes < MaxGateWrites /\ GateWrite
    \/ renders < MaxGateRenders /\ RenderBegin
    \/ RenderFlush
    \/ RenderDrop

SpecGate == InitRender /\ [][NextGate]_vars

\* the rendering loop for more than one round of the animation, the link
\* going up and down
NextAnimation ==
    \/ \E st \in WifiStates : set_wifi_status(st) /\ UNCHANGED statusVars
    \/ renders < MaxAnimationRenders /\ RenderBegin
    \/ RenderFlush
    \/ RenderDrop

SpecAnimation == InitRender /\ [][NextAnimation]_vars

----------------------------------------------------------------------------
(* The channel button, polled by the loop of main() *)

\* the user pushes the button: the pin goes low
ButtonPress ==
    /\ pin = TRUE
    /\ pin' = FALSE
    /\ hold' = [since |-> now, cals |-> 0]
    /\ UNCHANGED <<mainVars, clogs, body, txreq, threadVars, appended,
                   removed, op, now, done, buttonVars, txt, sense, dispVars,
                   statusVars, decodeVars, busVars>>

\* the user lets the button go: the pin goes high
ButtonRelease ==
    /\ pin = FALSE
    /\ pin' = TRUE
    /\ done' = [ms |-> now - hold.since, cals |-> hold.cals]
    /\ hold' = [since |-> -1, cals |-> 0]
    /\ UNCHANGED <<mainVars, clogs, body, txreq, threadVars, appended,
                   removed, op, now, buttonVars, txt, sense, dispVars,
                   statusVars, decodeVars, busVars>>

\* the loop without connectivity, on time or late, with calibration runs
\* and storage writes that may fail
ButtonInputs ==
    TickInputs({0}, {FALSE}, TickDelays, {NominalRead}, CalRuns, BOOLEAN)

NextButton ==
    \/ \E in \in ButtonInputs : ticks < MaxButtonTicks /\ Tick(in)
    \/ ButtonPress
    \/ ButtonRelease

\* the loop is entered with the channel loaded from this storage
InitLoop(boot) ==
    /\ max_records = 1
    /\ clock = 0
    /\ ticks = 0
    /\ clogs = <<>>
    /\ logging_start = TRUE
    /\ logging_stopped_by_buffer_full = FALSE
    /\ wifi_enable = FALSE
    /\ current_record = 0
    /\ logs = <<>>
    /\ txcount = 0
    /\ submit_at = "none"
    /\ InitSlot
    /\ InitController(boot)
    /\ InitDisplay
    /\ appended = 0
    /\ removed = 0
    /\ op = <<"none", 0>>

\* the loop is entered with any of the four channels loaded from storage
InitButton == \E ch \in 1..4 : InitLoop(Stored(ch))

SpecButton == InitButton /\ [][NextButton]_vars

\* the loop on time or 1900 ms late, calibration runs that succeed or fail
\* at the first sample
PressInputs ==
    TickInputs({0}, {FALSE}, PressDelays, {NominalRead},
               [fail_at : {0, 1}, fail_in : {"current"}, current : {20},
                voltage : {30}], {TRUE})

NextPress ==
    \/ \E in \in PressInputs : ticks < MaxPressTicks /\ Tick(in)
    \/ ButtonPress
    \/ ButtonRelease

SpecPress == InitButton /\ [][NextPress]_vars

\* the loop with connectivity and the button, against the delivery thread
TagInputs ==
    TickInputs({-60}, {TRUE}, {100}, {NominalRead}, {NominalCal}, {TRUE})

NextTag ==
    \/ \E in \in TagInputs : ticks < MaxTagTicks /\ Tick(in)
    \/ ButtonPress
    \/ ButtonRelease
    \/ HttpConnectionFail
    \/ TransferPoll
    \/ \E resp \in Responses : TransferDone(resp)

SpecTag == InitButton /\ [][NextTag]_vars

\* the loop on time without connectivity, storage writes that may fail
ChannelInputs ==
    TickInputs({0}, {FALSE}, {100}, {NominalRead}, {NominalCal}, BOOLEAN)

NextChannelSpec ==
    \/ \E in \in ChannelInputs : ticks < MaxChannelTicks /\ Tick(in)
    \/ ButtonPress
    \/ ButtonRelease

\* main() starts with storage that holds any byte or nothing under
\* "channel" and that may fail to be read
InitChannel ==
    \E st \in StoredChannels, ok \in BOOLEAN :
        InitLoop([stored |-> st, readable |-> ok])

SpecChannel == InitChannel /\ [][NextChannelSpec]_vars

----------------------------------------------------------------------------
(* main.rs: current_read, from the bytes of the register to its value *)

\* `(b0 as u32) << 16 | (b1 as u32) << 8 | (b2 as u32)`
Raw24(b) == b[1] * 65536 + b[2] * 256 + b[3]

\* decoding that negates the field instead of taking its complement
DecodeCurrent_SignMagnitude(b) ==
    IF (b[1] \div 128) % 2 = 1
    THEN 0 - ((Raw24(b) \div 16) - 524288)
    ELSE Raw24(b) \div 16

\* `if curt_buf[0] & 0x80 == 0x80 { (0x100000 - (raw >> 4)) * -1.0 }
\*  else { raw >> 4 }`
DecodeCurrent(b) ==
    IF (b[1] \div 128) % 2 = 1
    THEN 0 - (1048576 - (Raw24(b) \div 16))
    ELSE Raw24(b) \div 16

\* `i2c.read(0x40, &mut curt_buf, BLOCK)` returns Ok with three bytes
I2cRead(b) ==
    /\ curt_buf' = b
    /\ current_reg' = [read |-> FALSE, val |-> 0]
    /\ UNCHANGED <<coreVars, txt, dispVars, statusVars, busVars>>

\* the Ok arm of current_read
CurrentDecode ==
    /\ ~current_reg.read
    /\ current_reg' = [read |-> TRUE, val |-> DecodeCurrent(curt_buf)]
    /\ UNCHANGED <<coreVars, txt, dispVars, statusVars, curt_buf, busVars>>

NextDecode ==
    \/ \E b0 \in FirstBytes, b1 \in MiddleBytes, b2 \in LastBytes :
          I2cRead(<<b0, b1, b2>>)
    \/ CurrentDecode

SpecDecode == InitRender /\ [][NextDecode]_vars

----------------------------------------------------------------------------
(* main.rs: voltage_read, current_read, power_read on the I2C bus they share
   with the display, displayctl.rs: I2CWrapper::write *)

\* a read that lets the driver go between its two transfers
BusAfterWrite_Split(ok) == "free"

\* `i2c.write(0x40, &[reg], BLOCK)?`: the MutexGuard `i2c` lives on when the
\* write succeeded and is dropped by the return of `?` when it failed
BusAfterWrite(ok) == IF ok THEN "sensor" ELSE "free"

\* `let mut i2c = shared_i2c.lock().unwrap()`
SensorLock ==
    /\ sensor_pc = "idle"
    /\ bus_guard = "free"
    /\ bus_guard' = "sensor"
    /\ sensor_pc' = "write"
    /\ UNCHANGED <<coreVars, txt, dispVars, statusVars, decodeVars,
                   bus_last>>

\* `i2c.write(0x40, &[reg], BLOCK)?`: the register pointer goes out, or the
\* function returns the error
PointerWrite(ok) ==
    /\ sensor_pc = "write"
    /\ bus_last' = IF ok THEN "pointer" ELSE "pointer_err"
    /\ sensor_pc' = IF ok THEN "read" ELSE "idle"
    /\ bus_guard' = BusAfterWrite(ok)
    /\ UNCHANGED <<coreVars, txt, dispVars, statusVars, decodeVars>>

\* a read that returns with the lock of the driver still taken
BusAfterRead_Kept == "sensor"

\* `return Ok(..)` / `return Err(..)`: the MutexGuard `i2c` is dropped
BusAfterRead == "free"

\* `match i2c.read(0x40, &mut buf, BLOCK)`: both arms return
RegisterRead(ok) ==
    /\ sensor_pc = "read"
    /\ bus_last' = IF ok THEN "read" ELSE "read_err"
    /\ sensor_pc' = "idle"
    /\ bus_guard' = BusAfterRead
    /\ UNCHANGED <<coreVars, txt, dispVars, statusVars, decodeVars>>

\* I2CWrapper::write, called by `display.flush()` while the rendering loop
\* holds the status: lock the driver, write, drop the lock
DisplayWrite ==
    /\ render_pc = "flush"
    /\ bus_guard = "free"
    /\ bus_last' = "display"
    /\ UNCHANGED <<coreVars, txt, dispVars, statusVars, decodeVars,
                   bus_guard, sensor_pc>>

\* sensor reads against the rendering loop
NextBus ==
    \/ SensorLock
    \/ \E ok \in BOOLEAN : PointerWrite(ok)
    \/ \E ok \in BOOLEAN : RegisterRead(ok)
    \/ \E v \in ReadValues :
          sensor_pc = "idle" /\ set_voltage(v, v, v) /\ UNCHANGED statusVars
    \/ renders < MaxBusRenders /\ RenderBegin
    \/ DisplayWrite
    \/ RenderFlush
    \/ RenderDrop

SpecBus == InitRender /\ [][NextBus]_vars

----------------------------------------------------------------------------
(* The three threads on the three locks: the loop of main() (sensor reads,
   setters of DisplayPanel, record and set_transfer_data), the delivery
   thread and the rendering loop *)

\* `if logging_start { clogs.record(data); }`, between two calls
RecordCall ==
    /\ sensor_pc = "idle"
    /\ ticks < MaxGuardRecords
    /\ BufRecord(1)

\* `txd.set_transfer_data(logs)` and `clogs.remove_data(txcount)`: the lock
\* of the transfer data is taken and dropped inside set_transfer_data
SubmitCall ==
    /\ sensor_pc = "idle"
    /\ clogs # <<>>
    /\ tx_guard = "free"
    /\ LET res == set_transfer_data(get_all_data(clogs), body, txreq,
                                    influxdb_tag)
       IN  /\ logs' = get_all_data(clogs)
           /\ txcount' = res.count
           /\ submit_at' = th_pc
           /\ body' = res.body
           /\ txreq' = res.txreq
           /\ clogs' = IF res.count > 0 THEN remove_data(clogs, res.count)
                       ELSE clogs
           /\ removed' = removed + res.count
    /\ UNCHANGED <<max_records, clock, ticks, logging_start,
                   logging_stopped_by_buffer_full, wifi_enable,
                   current_record, threadVars, appended, op, ctlVars,
                   dispVars, statusVars, decodeVars, busVars>>

NextGuards ==
    \/ SensorLock
    \/ \E ok \in BOOLEAN : PointerWrite(ok)
    \/ \E ok \in BOOLEAN : RegisterRead(ok)
    \/ status_tick <= MaxGuardPasses /\ sensor_pc = "idle" /\ StatusWrite
    \/ RecordCall
    \/ SubmitCall
    \/ TransferPoll
    \/ TransferDone(Delivered)
    \/ renders < MaxGuardRenders /\ RenderBegin
    \/ DisplayWrite
    \/ RenderFlush
    \/ RenderDrop

SpecGuards == InitRender /\ [][NextGuards]_vars

----------------------------------------------------------------------------
(* Properties *)

\* a step of the main loop
IsTick == ticks' = ticks + 1
\* a step in which the delivery thread finishes a POST
IsTransferDone == th_pc = "post" /\ th_pc' = "wait"
\* timestamps of the lines of a body
Stamps(b) == {b[i].ts : i \in 1..Len(b)}

\* C1: when a delivery attempt ends with a non-success status or a transport
\* error, the delivery thread empties the body and clears the pending flag.
C1_FailedDeliveryFreesSlot ==
    [][(IsTransferDone /\ ret' = "Err")
          => (txreq' = FALSE /\ body' = <<>>)]_vars

\* C2: a submit while a job is pending returns 0 and leaves the body and the
\* pending flag unchanged; the body only gets lines while no job is pending.
C2_SubmitWhilePendingRejected ==
    [][/\ (IsTick /\ txreq /\ logs' # <<>>)
            => (txcount' = 0 /\ body' = body /\ txreq' = TRUE)
       /\ (body' # body /\ body' # <<>>) => (~txreq /\ txreq')]_vars

C2_Witness ==
    txreq /\ logs # <<>> /\ txcount = 0 /\ body # <<>> /\ removed > 0

\* C3: with no job pending, a submit over a non-empty list serializes the
\* first min(len, 128) records in buffer order, one line per record, marks
\* the job pending and returns that count (200 queued: 128, then 72).
C3_SubmitSerializesChunk ==
    [][(IsTick /\ ~txreq /\ logs' # <<>>)
          => LET n == IF Len(logs') < 128 THEN Len(logs') ELSE 128
             IN  /\ txcount' = n
                 /\ txreq' = TRUE
                 /\ Len(body') = n
                 /\ \A i \in 1..n : body'[i].ts = logs'[i].clock
                 /\ (Len(logs') = 200 => txcount' = 128)
                 /\ (Len(logs') = 72 => txcount' = 72)]_vars

C3_Witness ==
    /\ max_records = 200
    /\ removed = 128 + 72
    /\ clogs = <<>>
    /\ Len(logs) = 72
    /\ txcount = 72
    /\ Len(body) = 72

\* C4: when the POST returns status 204 the delivery thread clears the
\* pending flag and empties the body, and the next submit over a non-empty
\* list is accepted.
C4_SuccessFreesSlot ==
    [][/\ (IsTransferDone /\ ret' = "Ok") => (txreq' = FALSE /\ body' = <<>>)
       /\ (IsTick /\ ret = "Ok" /\ ~txreq /\ logs' # <<>>)
            => (txcount' > 0 /\ txreq' = TRUE)]_vars

C4_Witness ==
    ret = "Ok" /\ txreq /\ txcount > 0 /\ removed > txcount /\ lost = {}

\* C5: in a tick whose submit returns n > 0 exactly the n oldest records
\* leave the buffer, and they are the records of the pending body; in a
\* tick whose submit returns 0 (or that does not submit) nothing is drained.
C5_DrainMatchesSubmit ==
    [][IsTick =>
          IF txcount' > 0
          THEN /\ Len(clogs') = Len(logs') - txcount'
               /\ \A i \in 1..Len(clogs') : clogs'[i] = logs'[i + txcount']
               /\ Len(body') = txcount'
               /\ \A i \in 1..txcount' : body'[i].ts = logs'[i].clock
          ELSE /\ Len(clogs') >= Len(clogs)
               /\ SubSeq(clogs', 1, Len(clogs)) = clogs]_vars

C5_Witness ==
    txcount = 128 /\ Len(logs) > 128 /\ Len(clogs) = Len(logs) - 128

\* C6: the records of a body whose delivery failed are never put back into
\* the buffer and are in no later body (nor in a later POST).
C6_NoRequeue ==
    \A c \in lost :
        /\ \A i \in 1..Len(clogs) : clogs[i].clock # c
        /\ c \notin Stamps(body)
        /\ c \notin Stamps(request)

C6_Witness ==
    lost # {} /\ body # <<>> /\ th_pc = "post" /\ request # <<>>

\* C7: the size of the buffer is non-negative and equals the number of
\* records appended minus the number of records removed by drains.
C7_SizeIsAppendedMinusRemoved ==
    Len(clogs) >= 0 /\ Len(clogs) = appended - removed

C7_Witness ==
    op[1] = "remove_data" /\ removed > 0 /\ Len(clogs) > 0
        /\ appended = removed + Len(clogs)

\* C8: remove_data(n) removes the first min(n, size) records and keeps the
\* rest in order; n > size empties the buffer, n = 0 changes nothing.
C8_DrainPrefix ==
    [][(IsTick /\ op'[1] = "remove_data")
          => LET n == op'[2]
                 k == IF n < Len(clogs) THEN n ELSE Len(clogs)
             IN  /\ Len(clogs') = Len(clogs) - k
                 /\ \A i \in 1..Len(clogs') : clogs'[i] = clogs[i + k]
                 /\ (n > Len(clogs) => clogs' = <<>>)
                 /\ (n = 0 => clogs' = clogs)]_vars

C8_Witness ==
    op[1] = "remove_data" /\ removed > 0 /\ op[2] > removed /\ clogs = <<>>

\* C9: logging is disabled and stopped-by-full is set in the tick whose
\* evaluated size reaches the capacity; while stopped-by-full it stays
\* disabled in every tick whose size is at or above capacity/2; it is
\* re-enabled only in a tick whose size is strictly below capacity/2.
C9_BufferFullHysteresis ==
    [][IsTick =>
          /\ (current_record' >= max_records)
                => (~logging_start' /\ logging_stopped_by_buffer_full')
          /\ (logging_stopped_by_buffer_full /\ ~logging_start
                /\ current_record' >= max_records \div 2)
                => (~logging_start' /\ logging_stopped_by_buffer_full')
          /\ (~logging_start /\ logging_start')
                => current_record' < max_records \div 2]_vars

C9_Witness ==
    /\ logging_stopped_by_buffer_full
    /\ ~logging_start
    /\ current_record = (max_records \div 2) + 1
    /\ removed > 0

\* C10: once stopped-by-full, a tick whose evaluated size is below half the
\* capacity (2 * size < capacity) re-enables logging and clears the flag.
C10_RestartBelowHalf ==
    [][(IsTick /\ logging_stopped_by_buffer_full
            /\ 2 * current_record' < max_records)
          => (logging_start' /\ ~logging_stopped_by_buffer_full')]_vars

\* the record composed by a tick, when the tick appended it and it is
\* still in the buffer after the tick
LastRecord(rec) == rec[Len(rec)]
Recorded == logging_start /\ Len(clogs') > 0

\* C11: when the read of a quantity fails in a tick, the value pushed to the
\* display and stored in the tick's record is the value of the most recent
\* successful read of that quantity.
C11_FailedReadKeepsPrevious ==
    [][IsTick =>
          /\ ~sense'.vread.ok =>
                /\ txt'.voltage = sense.vgood
                /\ Recorded => LastRecord(clogs').voltage = sense.vgood
          /\ ~sense'.cread.ok =>
                /\ txt'.current = sense.cgood
                /\ Recorded => LastRecord(clogs').current = sense.cgood
          /\ ~sense'.pread.ok =>
                /\ txt'.power = sense.pgood
                /\ Recorded => LastRecord(clogs').power = sense.pgood]_vars

\* C12: whatever reads fail in a tick, every quantity whose read succeeded
\* gets its fresh value (less its offset) on the display and in the record,
\* and the tick goes on: size evaluated, watermark pushed, submit called
\* when connectivity is there and the buffer is not empty.
C12_ReadFailuresIndependent ==
    [][IsTick =>
          /\ sense'.vread.ok =>
                /\ txt'.voltage = sense'.vread.val - average_voltage_offset'
                /\ Recorded => LastRecord(clogs').voltage = txt'.voltage
          /\ sense'.cread.ok =>
                /\ txt'.current = sense'.cread.val - average_current_offset'
                /\ Recorded => LastRecord(clogs').current = txt'.current
          /\ sense'.pread.ok =>
                /\ txt'.power = sense'.pread.val
                /\ Recorded => LastRecord(clogs').power = txt'.power
          /\ current_record' = Len(clogs) + (IF logging_start THEN 1 ELSE 0)
          /\ txt'.buffer_water_mark = (current_record' * 100) \div max_records
          /\ (logs' # <<>>) = (wifi_enable' /\ current_record' > 0)]_vars

C12_Witness ==
    /\ ~sense.vread.ok /\ sense.cread.ok /\ ~sense.pread.ok
    /\ txt.current = 2000
    /\ clogs # <<>> /\ LastRecord(clogs).current = 2000
    /\ LastRecord(clogs).clock = clock
    /\ txreq

\* a pass of the rendering loop
IsRender == renders' = renders + 1

\* the range table of the display: Low is 0, High is 1
RangeStep(range, range_next, value) ==
    /\ (range = 0 /\ Abs(value) >= 2000) => range_next = 1
    /\ (range = 0 /\ Abs(value) < 2000) => range_next = 0
    /\ (range = 1 /\ Abs(value) < 1500) => range_next = 0
    /\ (range = 1 /\ Abs(value) >= 1500) => range_next = 1

\* C13: in every render tick the range of each quantity follows from that
\* quantity's value and its own previous range only: Low goes High at
\* abs >= 2.0 and stays Low otherwise, High goes Low at abs < 1.5 and stays
\* High otherwise.
C13_RangeHysteresis ==
    [][IsRender =>
          /\ RangeStep(txt.voltage_range, txt'.voltage_range, txt.voltage)
          /\ RangeStep(txt.current_range, txt'.current_range, txt.current)
          /\ RangeStep(txt.power_range, txt'.power_range, txt.power)]_vars

C13_Witness ==
    /\ renders = 2
    /\ txt.voltage = 2000 /\ prev.voltage_range = 0 /\ txt.voltage_range = 1
    /\ txt.current = 1999 /\ prev.current_range = 0 /\ txt.current_range = 0
    /\ txt.power = 1400 /\ prev.power_range = 1 /\ txt.power_range = 0

\* the battery voltages of the first n render ticks were LadderSeq[1..n]
Followed(n) == renders = n /\ ladder_step = n

\* C14: from level 0 the battery voltages 3.5, 3.7, 3.9 give the levels
\* 0, 20, 40; the next voltage 3.68 keeps the level at 40, and 3.65 after
\* it gives 20.
C14_DipKeepsLevel ==
    /\ Followed(1) => battery_level = 0
    /\ Followed(2) => battery_level = 20
    /\ Followed(3) => battery_level = 40
    /\ Followed(4) => battery_level = 40
    /\ Followed(5) => battery_level = 20

\* C14, as the ladder has it: 3.5, 3.7, 3.9 give 0, 20, 40; the next
\* voltage 3.68 is below the 40 -> 20 threshold 3.70 and gives 20, and 3.65
\* after it keeps 20.
C14_DipBelowThresholdDrops ==
    /\ Followed(1) => battery_level = 0
    /\ Followed(2) => battery_level = 20
    /\ Followed(3) => battery_level = 40
    /\ Followed(4) => battery_level = 20
    /\ Followed(5) => battery_level = 20

C14_Witness == Followed(5) /\ txt.battery = 3650 /\ prev.battery = 3680

\* the ladder and its thresholds (mV): UpAt[i] takes level i to i + 1,
\* DownAt[i] takes level i + 1 to i
LadderLevels == <<0, 20, 40, 60, 80, 100, 200>>
UpAt == <<3650, 3750, 3850, 3950, 4050, 4250>>
DownAt == <<3600, 3700, 3800, 3900, 4000, 4150>>
LevelIndex(level) == CHOOSE i \in 1..7 : LadderLevels[i] = level

\* C15: in one render tick the battery level stays or moves to its
\* neighbour on the ladder: up exactly when the voltage is at or above the
\* level's up-threshold, down exactly when it is below its down-threshold.
C15_LadderNeighbourSteps ==
    [][IsRender =>
          /\ battery_level \in {LadderLevels[i] : i \in 1..7}
          /\ LET i == LevelIndex(battery_level)
                 v == txt.battery
                 up == i < 7 /\ v >= UpAt[i]
                 down == i > 1 /\ v < DownAt[i - 1]
             IN  /\ up => battery_level' = LadderLevels[i + 1]
                 /\ down => battery_level' = LadderLevels[i - 1]
                 /\ (~up /\ ~down) => battery_level' = battery_level]_vars

C15_Witness ==
    /\ renders = 7
    /\ prev.battery_level = 200
    /\ txt.battery = 3500
    /\ battery_level = 100

\* C16: every press held for at least 2000 ms starts calibration exactly
\* once, whatever the timing of the ticks: never more than once in one
\* press, and once in every press that lasted 2000 ms or more.
C16_EveryLongPressCalibrates ==
    /\ hold.cals <= 1
    /\ done.cals <= 1
    /\ done.ms >= LONG_PRESS_TIME_MS => done.cals = 1

\* C16, as the polling loop has it: calibration starts at most once in one
\* press, and only in a tick that samples the button low 2000 ms or more
\* after the tick that detected the press; such a tick starts it unless it
\* was started before; a tick that samples the button high re-arms the
\* trigger.
C16_OncePerSampledPress ==
    [][IsTick =>
          /\ calib'.ran =>
                /\ ~pin
                /\ hold.cals = 0 /\ hold'.cals = 1
                /\ current_time' - BUTTON_PRESS_START_TIME'
                       >= LONG_PRESS_TIME_MS
          /\ (~pin /\ current_time' - BUTTON_PRESS_START_TIME'
                          >= LONG_PRESS_TIME_MS)
                => (calib'.ran \/ LONG_PRESS_TRIGGERED)
          /\ pin => (~LONG_PRESS_TRIGGERED' /\ ~CALIBRATION_IN_PROGRESS')]_vars

\* a second press calibrates after the release of a press that did
C16_Witness ==
    /\ calib.ran
    /\ hold.cals = 1
    /\ done.cals = 1
    /\ ~LAST_BUTTON_STATE

C18_FailedCalibrationKeepsOffsets ==
    [][IsTick =>
          /\ (calib'.ran /\ calib'.fail_at \in 1..CalSamples) =>
                /\ txt'.message = "Calibration Failed"
                /\ average_current_offset' = average_current_offset
                /\ average_voltage_offset' = average_voltage_offset
                /\ nvs'.current_offset = nvs.current_offset
                /\ nvs'.voltage_offset = nvs.voltage_offset
          /\ (\/ average_current_offset' # average_current_offset
              \/ average_voltage_offset' # average_voltage_offset
              \/ nvs'.current_offset # nvs.current_offset
              \/ nvs'.voltage_offset # nvs.voltage_offset) =>
                /\ calib'.ran
                /\ calib'.fail_at \notin 1..CalSamples
                /\ now' = current_time' + CalSleepMs * CalSamples]_vars

C18_Witness ==
    /\ calib.ran
    /\ calib.fail_at = 300
    /\ txt.message = "Calibration Failed"
    /\ average_current_offset = 20
    /\ average_voltage_offset = 30
    /\ nvs.current_offset = 20
    /\ nvs.voltage_offset = 30

\* C19: nobody holds the status guard during blocking I/O: while the
\* rendering loop flushes the frame to the display the status guard is
\* free, so a status write of the main loop does not wait for the repaint.
C19_GuardFreeDuringFlush == render_pc = "flush" => guard = "free"

\* C20: once the main loop has made a pass, the fields the rendering loop
\* reads under the status guard were all written by the same pass.
C20_SnapshotOfOneTick ==
    (guard = "render" /\ status_tick > 1) =>
        \A f \in StatusFields, g \in StatusFields : stamp[f] = stamp[g]

\* C21: a call of set_tag leaves the pending flag, the body already
\* serialized and the body in flight as they are, with the tag they were
\* serialized with; only the lines serialized after it carry the new tag.
C21_SetTagNotRetroactive ==
    [][(influxdb_tag' # influxdb_tag) =>
          /\ request' = request
          /\ th_pc' = th_pc
          /\ txreq => (txreq' /\ body' = body)
          /\ Len(body') >= Len(body)
          /\ \A i \in 1..Len(body') :
                IF i <= Len(body) THEN body'[i] = body[i]
                ELSE body'[i].tag = influxdb_tag']_vars

\* the channel went from 1 to 2 while a body serialized on channel 1 was
\* being posted; the body serialized since carries the tag of channel 2
C21_Witness ==
    /\ influxdb_tag = <<"ch", 2>>
    /\ th_pc = "post"
    /\ request # <<>>
    /\ \A i \in 1..Len(request) : request[i].tag = <<"ch", 1>>
    /\ txreq
    /\ calib.short

\* C22: the delivery loop never ends: no failure inside it, the creation
\* of the HTTP connection included, makes the thread leave the loop.
C22_DeliveryLoopNeverExits == th_pc # "exit"

\* C23: the delivery thread does not hold the transfer-job guard while it
\* posts, and a tick that calls submit during the POST gets 0 back, drains
\* nothing and goes on.
C23_PostDoesNotStallSampling ==
    [][/\ th_pc' = "post" => tx_guard' = "free"
       /\ (IsTick /\ th_pc = "post" /\ logs' # <<>>) =>
             /\ submit_at' = "post"
             /\ txcount' = 0
             /\ Len(clogs') >= Len(clogs)
             /\ body' = body /\ txreq']_vars

C23_Witness ==
    /\ th_pc = "post"
    /\ tx_guard = "free"
    /\ submit_at = "post"
    /\ logs # <<>>
    /\ txcount = 0
    /\ request # <<>>

\* the 20-bit field of the register and its two's-complement value
Field20(b) == Raw24(b) \div 16
TwosComplement20(x) == IF x >= 524288 THEN x - 1048576 ELSE x

\* C24: the decoded current register is the two's-complement value of the
\* 20-bit field raw >> 4, whatever the 4 padding bits; 00 00 00 gives 0
\* and 80 00 10 gives -524287.
C24_CurrentDecodeTwosComplement ==
    current_reg.read =>
        /\ current_reg.val = TwosComplement20(Field20(curt_buf))
        /\ (curt_buf[1] >= 128) =>
              current_reg.val = 0 - (1048576 - Field20(curt_buf))
        /\ (curt_buf[1] < 128) => current_reg.val = Field20(curt_buf)
        /\ \A pad \in 0..15 :
              DecodeCurrent(<<curt_buf[1], curt_buf[2],
                              (curt_buf[3] \div 16) * 16 + pad>>)
                 = current_reg.val
        /\ curt_buf = <<0, 0, 0>> => current_reg.val = 0
        /\ curt_buf = <<128, 0, 16>> => current_reg.val = -524287

C24_Witness ==
    current_reg.read /\ curt_buf = <<128, 0, 16>> /\ current_reg.val = -524287

\* C25: the active channel is always one of 1..4: main() starts with the
\* stored channel when storage is readable and holds one of 1..4 and with
\* channel 1 otherwise, and after a short press whose storage write failed
\* the loop has gone on with the next channel active, displayed and tagged
C25_ChannelInRange ==
    /\ channel \in 1..4
    /\ txt.channel = channel
    /\ influxdb_tag = TagOf(channel)
    /\ ticks = 0 =>
          channel = IF nvs.readable /\ nvs.channel \in 1..4
                    THEN nvs.channel ELSE 1
    /\ (calib.short /\ ~calib.nvs_ok) =>
          /\ channel = calib.nvs_put
          /\ ticks > 0

\* storage held 255, channel 1 was active, and a short press moved to
\* channel 2 although the write to storage failed
C25_Witness ==
    /\ nvs.channel = 255
    /\ channel = 2
    /\ calib.short
    /\ ~calib.nvs_ok

\* C26: a pass of the loop calls set_transfer_data only when connectivity
\* is available in that pass and the buffer holds a record; a pass without
\* connectivity makes no job pending, leaves the body alone and removes
\* nothing from the buffer
C26_SubmitNeedsConnectivity ==
    [][IsTick =>
          /\ submit_at' # "none" => (wifi_enable' /\ current_record' > 0)
          /\ ~wifi_enable' =>
                /\ submit_at' = "none"
                /\ txcount' = 0
                /\ txreq' = txreq
                /\ body' = body
                /\ removed' = removed
                /\ Len(clogs') >= Len(clogs)]_vars

\* connectivity was lost after a delivery: records pile up in the buffer
\* and no job is pending
C26_Witness ==
    /\ ~wifi_enable
    /\ submit_at = "none"
    /\ removed > 0
    /\ Len(clogs) >= 2
    /\ ~txreq

\* C27: the watermark a pass of the loop writes is the truncated quotient
\* size * 100 / max_records, where size is the length of the buffer after
\* this pass recorded and before it removed what it submitted, and the
\* watermark is between 0 and 100
C27_WatermarkOfSizeBeforeDrain ==
    [][IsTick =>
          LET size == Len(clogs) + (IF logging_start THEN 1 ELSE 0)
          IN  /\ current_record' = size
              /\ Len(clogs') = size - txcount'
              /\ txt'.buffer_water_mark * max_records <= size * 100
              /\ size * 100 < (txt'.buffer_water_mark + 1) * max_records
              /\ txt'.buffer_water_mark \in 0..100]_vars

\* with room for three records the pass recorded one, showed 33 and then
\* handed the record over, leaving the buffer empty
C27_Witness ==
    /\ max_records = 3
    /\ txt.buffer_water_mark = 33
    /\ txcount = 1
    /\ clogs = <<>>

\* what a frame shows of a status: the values, the ranges, the logging
\* status, the connectivity state with the animation index while connecting
\* and the signal strength while connected, the watermark, the battery
\* voltage and level, the channel and the message
Shown(t, level, lc) ==
    [voltage |-> t.voltage, current |-> t.current, power |-> t.power,
     voltage_range |-> t.voltage_range, current_range |-> t.current_range,
     power_range |-> t.power_range, status |-> t.status,
     link |-> CASE t.wifi = "Connecting" -> <<t.wifi, lc>>
                [] t.wifi = "Connected" -> <<t.wifi, t.wifi_rssi>>
                [] OTHER -> <<t.wifi, 0>>,
     buffer_water_mark |-> t.buffer_water_mark, battery |-> t.battery,
     battery_level |-> level, channel |-> t.channel, message |-> t.message]

\* C28: a pass of the rendering loop draws the frame exactly when what it
\* would show differs from what was recorded at the last drawn frame, and
\* a drawn frame is recorded as shown
C28_RenderGating ==
    [][/\ IsRender =>
             ((render_pc' = "flush") <=>
                 (Shown(txt', battery_level', loopcount')
                    # Shown(prev, prev.battery_level,
                            prev.loopcount_display)))
       /\ (render_pc = "flush" /\ render_pc' = "drop") =>
             Shown(prev', prev'.battery_level, prev'.loopcount_display)
                = Shown(txt, battery_level, loopcount)]_vars

\* a pass after the first frame drew nothing: the signal strength differs
\* from the recorded one, but the link is down and shows none
C28_Witness ==
    /\ renders >= 2
    /\ render_pc = "drop"
    /\ guard = "render"
    /\ txt.wifi = "Disconnected"
    /\ txt.wifi_rssi # prev.wifi_rssi

\* C29: every pass of the rendering loop moves the animation index one
\* step round the cycle 0, 1, .., 15, 0, nothing else moves it, and it is
\* never outside 0..15
C29_AnimationIndexCycles ==
    [][/\ loopcount' \in 0..15
       /\ IsRender => loopcount' = (loopcount + 1) % 16
       /\ ~IsRender => loopcount' = loopcount]_vars

\* the sixteenth pass, while connecting, brought the index from 15 back
\* to 0 and drew the frame
C29_Witness ==
    /\ renders = 16
    /\ loopcount = 0
    /\ txt.wifi = "Connecting"
    /\ render_pc = "flush"
    /\ prev.loopcount_display = 15

\* C30: the result message of a calibration is not taken away or replaced
\* by a pass of the loop that starts less than 2 seconds after the message
\* was set
C30_MessageHeldTwoSeconds ==
    [][(IsTick /\ calib.msg_at >= 0 /\ txt'.message # txt.message)
          => current_time' >= calib.msg_at + MessageHoldMs]_vars

\* C31: a sensor read holds the lock of the I2C driver from before its
\* register-pointer write until it returns: the read of the register follows
\* its pointer write with no display write between them, the display
\* writes only while no sensor read is under way, and a sensor read that
\* has returned, with a value or with an error, no longer holds the lock
C31_BusHeldForOneTransaction ==
    [][/\ (sensor_pc = "read" /\ sensor_pc' = "idle") => bus_last = "pointer"
       /\ (bus_last' = "display" /\ bus_last # "display")
             => (sensor_pc = "idle" /\ sensor_pc' = "idle")
       /\ sensor_pc' \in {"write", "read"} => bus_guard' = "sensor"
       /\ sensor_pc' = "idle" => bus_guard' = "free"]_vars

\* a sensor read failed at the register while the rendering loop was in
\* the middle of a frame, and the lock is free again
C31_Witness ==
    /\ bus_last = "read_err"
    /\ sensor_pc = "idle"
    /\ bus_guard = "free"
    /\ render_pc = "flush"

\* C32: whenever no job is pending the body is empty, so the body of an
\* accepted set_transfer_data holds one line per record it counted, those
\* of the first records it was given, and nothing else
C32_IdleSlotHasEmptyBody ==
    /\ (~txreq => body = <<>>)
    /\ [][/\ ~txreq' => body' = <<>>
          /\ (IsTick /\ txcount' > 0) =>
                /\ ~txreq /\ txreq'
                /\ Len(body') = txcount'
                /\ \A i \in 1..txcount' : body'[i].ts = logs'[i].clock]_vars

\* a second job was composed after the first was delivered
C32_Witness ==
    /\ ret = "Ok"
    /\ txreq
    /\ txcount > 0
    /\ Len(body) = txcount
    /\ removed > txcount

\* C33: from the copy of the body by the delivery thread until the thread
\* clears the body, the body in the slot is the copy that is being posted:
\* a set_transfer_data in between is refused, and what the thread clears is
\* what it sent
C33_ClearedBodyWasSent ==
    [][/\ th_pc' = "post" => (txreq' /\ body' = request')
       /\ IsTransferDone => (body = request /\ body' = <<>>)
       /\ (IsTick /\ th_pc = "post") => (txcount' = 0 /\ body' = body)]_vars

\* the loop called set_transfer_data with records while a POST was under
\* way and was refused
C33_Witness ==
    /\ th_pc = "post"
    /\ submit_at = "post"
    /\ logs # <<>>
    /\ txcount = 0
    /\ body = request
    /\ body # <<>>

\* the records of a buffer are in the order of their timestamps
InCaptureOrder(rec) ==
    \A i \in 1..Len(rec) : \A j \in 1..Len(rec) :
        i < j => rec[i].clock < rec[j].clock

\* C34: the buffer holds its records in capture order and a new record is
\* newer than every record and every line before it; an accepted
\* set_transfer_data writes the lines of the oldest records of the buffer,
\* in their order, and exactly these records leave the buffer in the same
\* pass, so the lines of all bodies, one body after the other, run through
\* the appended records from the first on, each record once
C34_SerializedOnceInOrder ==
    [][IsTick =>
          /\ InCaptureOrder(clogs')
          /\ \A i \in 1..Len(clogs') : clogs'[i].clock <= clock'
          /\ \A i \in 1..Len(body') : body'[i].ts <= clock'
          /\ clock' > clock
          /\ appended' > appended =>
                clock' = IF logs' # <<>> THEN logs'[Len(logs')].clock
                         ELSE clogs'[Len(clogs')].clock
          /\ txcount' > 0 =>
                /\ InCaptureOrder(logs')
                /\ Len(body') = txcount'
                /\ \A i \in 1..txcount' : body'[i].ts = logs'[i].clock
                /\ clogs' = SubSeq(logs', txcount' + 1, Len(logs'))
                /\ \A i \in 1..Len(body') : \A j \in 1..Len(clogs') :
                      body'[i].ts < clogs'[j].clock]_vars

\* after an earlier body was delivered, a body of two records was composed
\* from the two oldest records of the buffer
C34_Witness ==
    /\ ret = "Ok"
    /\ removed > txcount
    /\ txcount >= 2
    /\ txreq
    /\ body[1].ts < body[2].ts

\* C35: the buffer never holds more records than max_records, and while
\* logging is on it holds fewer: a pass of the loop records only if logging
\* was on, and turns logging off when the size has reached max_records
C35_SizeWithinCapacity ==
    /\ Len(clogs) <= max_records
    /\ (logging_start => Len(clogs) < max_records)
    /\ [][/\ Len(clogs') <= max_records
          /\ IsTick =>
                /\ current_record' <= max_records
                /\ appended' > appended => logging_start
                /\ ~logging_start => appended' = appended
                /\ current_record' >= max_records => ~logging_start'
                /\ logging_start' => current_record' < max_records]_vars

\* the buffer is full, logging is off, and a pass has gone by without a
\* record
C35_Witness ==
    /\ max_records >= 2
    /\ Len(clogs) = max_records
    /\ ~logging_start
    /\ ticks > max_records

\* C36: logging is on exactly when it is not marked as stopped by a full
\* buffer: before the first pass of the loop and after every pass
C36_LoggingIffNotStoppedByFull ==
    /\ logging_start = ~logging_stopped_by_buffer_full
    /\ [][logging_start' = ~logging_stopped_by_buffer_full']_vars

\* logging was stopped by a full buffer and is on again after the buffer
\* was drained
C36_Witness ==
    /\ logging_start
    /\ ~logging_stopped_by_buffer_full
    /\ removed > 0
    /\ Len(clogs) < max_records \div 2
    /\ appended >= max_records
    /\ ticks > appended

\* the run ends before a pass of the loop has seen the buffer below half
\* of max_records
RunEndsUndrained == ticks = MaxTicks /\ 2 * current_record >= max_records

\* C37: if from some pass on connectivity is always available, then
\* whenever logging is stopped by a full buffer, logging is on again later,
\* unless the run ends before a pass has seen the buffer below half
C37_BackpressureLiveness ==
    (<>[]wifi_enable) =>
        [](logging_stopped_by_buffer_full =>
              <>(logging_start \/ RunEndsUndrained))

Units == {"main", "delivery", "render"}

\* the locks a thread holds
Holds(u) ==
    CASE u = "main" ->
            (IF bus_guard = "sensor" THEN {"bus"} ELSE {})
               \cup (IF tx_guard = "main" THEN {"transfer"} ELSE {})
      [] u = "delivery" ->
            IF tx_guard = "thread" THEN {"transfer"} ELSE {}
      [] OTHER ->
            (IF guard = "render" THEN {"status"} ELSE {})
               \cup (IF bus_guard = "display" THEN {"bus"} ELSE {})

\* the locks a thread may be blocked on: the loop of main() between two
\* calls may be at any of its lock() calls, the delivery thread at its own,
\* the rendering loop at the top of its loop or at a write of the frame
Awaits(u) ==
    CASE u = "main" ->
            IF sensor_pc # "idle" THEN {}
            ELSE (IF guard # "free" THEN {"status"} ELSE {})
                    \cup (IF bus_guard = "display" THEN {"bus"} ELSE {})
                    \cup (IF tx_guard = "thread" THEN {"transfer"} ELSE {})
      [] u = "delivery" ->
            IF tx_guard = "main" THEN {"transfer"} ELSE {}
      [] OTHER ->
            (IF render_pc = "sleep" /\ guard # "free" THEN {"status"}
             ELSE {})
               \cup (IF render_pc = "flush" /\ bus_guard = "sensor"
                     THEN {"bus"} ELSE {})

\* C38: no two threads each hold a lock the other is blocked on; no thread
\* holds two locks, except the rendering loop that writes the frame to the
\* bus while it holds the status; the loop of main() holds the bus only
\* inside a sensor read, where it takes no other lock
C38_NoDeadlockOnGuards ==
    /\ \A u \in Units : \A v \in Units \ {u} :
          ~(Holds(u) \cap Awaits(v) # {} /\ Holds(v) \cap Awaits(u) # {})
    /\ \A u \in Units : Cardinality(Holds(u)) > 1 => u = "render"
    /\ "bus" \in Holds("render") => "status" \in Holds("render")
    /\ "bus" \in Holds("main") => sensor_pc # "idle"

\* the rendering loop holds the status and waits for the bus, which the
\* loop of main() holds in the middle of a sensor read, while a POST is
\* under way
C38_Witness ==
    /\ "status" \in Holds("render")
    /\ "bus" \in Awaits("render")
    /\ "bus" \in Holds("main")
    /\ sensor_pc = "read"
    /\ th_pc = "post"

\* C39: a press of the button does at most one thing: the pass that sees
\* the release of a press during which calibration started does not change
\* the channel, and no calibration started during a press that lasted
\* less than 2000 ms
C39_PressDoesOneAction ==
    [][/\ done'.ms < LONG_PRESS_TIME_MS => done'.cals = 0
       /\ (IsTick /\ calib'.short) => done.cals = 0]_vars

\* C40: while the battery voltage read by the render ticks stays the same,
\* from any level the level is at a fixed point after at most 6 ticks, a
\* level that a tick left unchanged stays, and the level never comes back to
\* a level it has left; each up-threshold lies strictly above the
\* down-threshold of the same pair of levels.
C40_HysteresisStable ==
    LET s == held.levels
        n == Len(s)
    IN  /\ \A i \in 1..6 : UpAt[i] > DownAt[i]
        /\ \A k \in 8..n : s[k] = s[7]
        /\ \A i \in 2..n : s[i - 1] = s[i] => \A k \in i..n : s[k] = s[i]
        /\ \A i \in 1..n : \A j \in i..n : \A k \in j..n :
              s[i] = s[k] => s[j] = s[i]

C40_Witness ==
    /\ held.battery = 3500
    /\ held.levels = <<200, 100, 80, 60, 40, 20, 0, 0>>
    /\ battery_level = 0
====
